---------------------------- MODULE Spec2Model ----------------------------
(***************************************************************************)
(* Model of src/MultiplayerChess.jsx: one shared game document in the      *)
(* store, per-user wallet documents, and several browser clients (React    *)
(* components) that read the game through a snapshot listener and write it *)
(* through transactions.                                                   *)
(*                                                                         *)
(* A store transaction (runTransaction) is serializable: its read, checks  *)
(* and write are one atomic step on the committed document.  What a client *)
(* decides before the transaction starts is decided on its own streamed    *)
(* copy (gameState), which may be older than the committed document.       *)
(***************************************************************************)
EXTENDS Integers, Sequences, FiniteSets, TLC

\* ------------------------------------------------------------------ bounds
\* committed moves in one behaviour
MaxMoves == 4
\* committed joins, leaves and resets in one behaviour
MaxSeatOps == 3
\* snapshots committed but not yet delivered to a client's listener
MaxLag == 1

\* ------------------------------------------------------------- board model
Null == "null"
NoSelection == 0 - 1

INITIAL_BOARD_STRING ==
    << "r","n","b","q","k","b","n","r",
       "p","p","p","p","p","p","p","p",
       ".",".",".",".",".",".",".",".",
       ".",".",".",".",".",".",".",".",
       ".",".",".",".",".",".",".",".",
       ".",".",".",".",".",".",".",".",
       "P","P","P","P","P","P","P","P",
       "R","N","B","Q","K","B","N","R" >>

\* boardState[index] for a JavaScript index 0..63
At(boardState, index) == boardState[index + 1]

WhitePieces == {"R","N","B","Q","K","P"}

toUpperCase(piece) ==
    CASE piece = "r" -> "R" [] piece = "n" -> "N" [] piece = "b" -> "B"
      [] piece = "q" -> "Q" [] piece = "k" -> "K" [] piece = "p" -> "P"
      [] OTHER -> piece

isWhite(piece) == piece = toUpperCase(piece) /\ piece # "."

getPieceColor(boardState, index) ==
    LET piece == At(boardState, index)
    IN  IF piece = "." THEN Null
        ELSE IF isWhite(piece) THEN "White" ELSE "Black"

indexToCoords(index) == << index \div 8, index % 8 >>

coordsToIndex(row, col) == row * 8 + col

Abs(x) == IF x < 0 THEN 0 - x ELSE x

\* mutant of isValidMove: without Rule 1 (cannot capture your own piece)
isValidMoveOwnCapture(boardState, fromIndex, toIndex) ==
    LET fromR == indexToCoords(fromIndex)[1]
        fromC == indexToCoords(fromIndex)[2]
        toR == indexToCoords(toIndex)[1]
        toC == indexToCoords(toIndex)[2]
        piece == At(boardState, fromIndex)
        targetPiece == At(boardState, toIndex)
        pieceType == toUpperCase(piece)
        isMovingWhite == isWhite(piece)
        dR == toR - fromR
        dC == toC - fromC
        forwardDir == IF isMovingWhite THEN 0 - 1 ELSE 1
        startingRow == IF isMovingWhite THEN 6 ELSE 1
    IN  IF FALSE THEN FALSE
        ELSE CASE pieceType = "P" ->
                    IF dC = 0 /\ dR = forwardDir /\ targetPiece = "." THEN TRUE
                    ELSE IF dC = 0 /\ dR = 2 * forwardDir /\ targetPiece = "."
                         THEN fromR = startingRow
                              /\ At(boardState, coordsToIndex(fromR + forwardDir, fromC)) = "."
                    ELSE Abs(dC) = 1 /\ dR = forwardDir /\ targetPiece # "."
               [] pieceType = "N" ->
                    (Abs(dR) = 2 /\ Abs(dC) = 1) \/ (Abs(dR) = 1 /\ Abs(dC) = 2)
               [] pieceType = "B" -> Abs(dR) = Abs(dC)
               [] pieceType = "R" -> dR = 0 \/ dC = 0
               [] pieceType = "Q" -> (dR = 0 \/ dC = 0) \/ (Abs(dR) = Abs(dC))
               [] pieceType = "K" -> Abs(dR) <= 1 /\ Abs(dC) <= 1
               [] OTHER -> FALSE

\* mutant of isValidMove: the pawn's two steps without the look at the cell
\* it passes over
isValidMoveJumps(boardState, fromIndex, toIndex) ==
    LET fromR == indexToCoords(fromIndex)[1]
        fromC == indexToCoords(fromIndex)[2]
        toR == indexToCoords(toIndex)[1]
        toC == indexToCoords(toIndex)[2]
        piece == At(boardState, fromIndex)
        targetPiece == At(boardState, toIndex)
        pieceType == toUpperCase(piece)
        isMovingWhite == isWhite(piece)
        dR == toR - fromR
        dC == toC - fromC
        forwardDir == IF isMovingWhite THEN 0 - 1 ELSE 1
        startingRow == IF isMovingWhite THEN 6 ELSE 1
    IN  IF targetPiece # "." /\ isMovingWhite = isWhite(targetPiece) THEN FALSE
        ELSE CASE pieceType = "P" ->
                    IF dC = 0 /\ dR = forwardDir /\ targetPiece = "." THEN TRUE
                    ELSE IF dC = 0 /\ dR = 2 * forwardDir /\ targetPiece = "."
                         THEN fromR = startingRow
                    ELSE Abs(dC) = 1 /\ dR = forwardDir /\ targetPiece # "."
               [] pieceType = "N" ->
                    (Abs(dR) = 2 /\ Abs(dC) = 1) \/ (Abs(dR) = 1 /\ Abs(dC) = 2)
               [] pieceType = "B" -> Abs(dR) = Abs(dC)
               [] pieceType = "R" -> dR = 0 \/ dC = 0
               [] pieceType = "Q" -> (dR = 0 \/ dC = 0) \/ (Abs(dR) = Abs(dC))
               [] pieceType = "K" -> Abs(dR) <= 1 /\ Abs(dC) <= 1
               [] OTHER -> FALSE

\* mutant of isValidMove: Bishop, Rook and Queen stop at the first piece in
\* their way
isValidMoveClearPath(boardState, fromIndex, toIndex) ==
    LET fromR == indexToCoords(fromIndex)[1]
        fromC == indexToCoords(fromIndex)[2]
        toR == indexToCoords(toIndex)[1]
        toC == indexToCoords(toIndex)[2]
        piece == At(boardState, fromIndex)
        targetPiece == At(boardState, toIndex)
        pieceType == toUpperCase(piece)
        isMovingWhite == isWhite(piece)
        dR == toR - fromR
        dC == toC - fromC
        forwardDir == IF isMovingWhite THEN 0 - 1 ELSE 1
        startingRow == IF isMovingWhite THEN 6 ELSE 1
        stepR == IF dR > 0 THEN 1 ELSE IF dR < 0 THEN 0 - 1 ELSE 0
        stepC == IF dC > 0 THEN 1 ELSE IF dC < 0 THEN 0 - 1 ELSE 0
        clear == \A k \in 1 .. ((IF Abs(dR) > Abs(dC) THEN Abs(dR) ELSE Abs(dC)) - 1) :
                     At(boardState, coordsToIndex(fromR + k * stepR, fromC + k * stepC)) = "."
    IN  IF targetPiece # "." /\ isMovingWhite = isWhite(targetPiece) THEN FALSE
        ELSE CASE pieceType = "P" ->
                    IF dC = 0 /\ dR = forwardDir /\ targetPiece = "." THEN TRUE
                    ELSE IF dC = 0 /\ dR = 2 * forwardDir /\ targetPiece = "."
                         THEN fromR = startingRow
                              /\ At(boardState, coordsToIndex(fromR + forwardDir, fromC)) = "."
                    ELSE Abs(dC) = 1 /\ dR = forwardDir /\ targetPiece # "."
               [] pieceType = "N" ->
                    (Abs(dR) = 2 /\ Abs(dC) = 1) \/ (Abs(dR) = 1 /\ Abs(dC) = 2)
               [] pieceType = "B" -> Abs(dR) = Abs(dC) /\ clear
               [] pieceType = "R" -> (dR = 0 \/ dC = 0) /\ clear
               [] pieceType = "Q" -> ((dR = 0 \/ dC = 0) \/ (Abs(dR) = Abs(dC))) /\ clear
               [] pieceType = "K" -> Abs(dR) <= 1 /\ Abs(dC) <= 1
               [] OTHER -> FALSE

isValidMove(boardState, fromIndex, toIndex) ==
    LET fromR == indexToCoords(fromIndex)[1]
        fromC == indexToCoords(fromIndex)[2]
        toR == indexToCoords(toIndex)[1]
        toC == indexToCoords(toIndex)[2]
        piece == At(boardState, fromIndex)
        targetPiece == At(boardState, toIndex)
        pieceType == toUpperCase(piece)
        isMovingWhite == isWhite(piece)
        dR == toR - fromR
        dC == toC - fromC
        forwardDir == IF isMovingWhite THEN 0 - 1 ELSE 1
        startingRow == IF isMovingWhite THEN 6 ELSE 1
    IN  IF targetPiece # "." /\ isMovingWhite = isWhite(targetPiece) THEN FALSE
        ELSE CASE pieceType = "P" ->
                    IF dC = 0 /\ dR = forwardDir /\ targetPiece = "." THEN TRUE
                    ELSE IF dC = 0 /\ dR = 2 * forwardDir /\ targetPiece = "."
                         THEN fromR = startingRow
                              /\ At(boardState, coordsToIndex(fromR + forwardDir, fromC)) = "."
                    ELSE Abs(dC) = 1 /\ dR = forwardDir /\ targetPiece # "."
               [] pieceType = "N" ->
                    (Abs(dR) = 2 /\ Abs(dC) = 1) \/ (Abs(dR) = 1 /\ Abs(dC) = 2)
               [] pieceType = "B" -> Abs(dR) = Abs(dC)
               [] pieceType = "R" -> dR = 0 \/ dC = 0
               [] pieceType = "Q" -> (dR = 0 \/ dC = 0) \/ (Abs(dR) = Abs(dC))
               [] pieceType = "K" -> Abs(dR) <= 1 /\ Abs(dC) <= 1
               [] OTHER -> FALSE


\* ------------------------------------------------------------------- state
Clients == {"c1", "c2", "c3"}

\* Who is logged in where.  A tab with no login shows the login form and
\* issues nothing; it is left out (csid Null).
LoginsTwo ==
    [c1 |-> [csid |-> "A", uid |-> "u1"],
     c2 |-> [csid |-> "B", uid |-> "u2"],
     c3 |-> [csid |-> Null, uid |-> Null]]

\* two tabs of one browser (one CSID, one auth uid) and an opponent
LoginsTabs ==
    [c1 |-> [csid |-> "A", uid |-> "u1"],
     c2 |-> [csid |-> "A", uid |-> "u1"],
     c3 |-> [csid |-> "B", uid |-> "u2"]]

\* three players
LoginsThree ==
    [c1 |-> [csid |-> "A", uid |-> "u1"],
     c2 |-> [csid |-> "B", uid |-> "u2"],
     c3 |-> [csid |-> "C", uid |-> "u3"]]

Uids == {"u1", "u2", "u3"}

\* squares the modelled users click on: the white queen's d1-h5-e8 and the
\* black pawn's a7-a6
ClickCells == {4, 8, 16, 31, 59}

InitialGameState ==
    [ boardState  |-> INITIAL_BOARD_STRING,
      turn        |-> "White",
      player1CSID |-> "",
      player2CSID |-> "",
      gameStatus  |-> "Waiting",
      winnerCSID  |-> Null ]

NoOp == [op |-> "none", fromIndex |-> NoSelection, toIndex |-> NoSelection, myColor |-> Null]

Pending(op) == [NoOp EXCEPT !.op = op]

VARIABLES
    game,                \* the committed game document (GAME_DOC_PATH)
    wallet,              \* the committed wallet documents: uid -> csCoinBalance
    inbox,               \* per client: committed snapshots not yet delivered
    gameState,           \* per client: React state gameState (last snapshot)
    selectedSquareIndex, \* per client: React state selectedSquareIndex
    pend,                \* per client: the transaction in flight, with what its handler captured
    loggedInCSID,        \* per client: React state loggedInCSID
    authUser,            \* per client: uid of React state authUser
    resetScheduled,      \* per client: setTimeout(handleResetGame) not yet fired
    settled,             \* per uid: settlements applied for the last Finished transition
    csCoinBalance,       \* per client: React state csCoinBalance (last wallet snapshot)
    modals,              \* per client: React state modals (the exchange dialog)
    exchange,            \* per client: the handleConfirmExchange call in flight
    exchange_requests,   \* the committed exchange_requests collection
    probe,               \* one call of isValidMove: its arguments and what it returned
    nMoves,              \* committed moves so far
    nSeatOps,            \* committed joins, leaves and resets so far
    docExists,           \* the game document exists in the store
    initPending          \* clients whose setDoc for a missing document is in flight

vars == << game, wallet, inbox, gameState, selectedSquareIndex, pend,
           loggedInCSID, authUser, resetScheduled, settled, csCoinBalance, modals,
           exchange, exchange_requests, probe, nMoves, nSeatOps, docExists,
           initPending >>

\* the variables of the exchange dialog and its log
exchVars == << csCoinBalance, modals, exchange, exchange_requests >>

isPlayer(c) ==
    loggedInCSID[c] = gameState[c].player1CSID
    \/ loggedInCSID[c] = gameState[c].player2CSID

myColor(c) ==
    IF loggedInCSID[c] = gameState[c].player1CSID THEN "White"
    ELSE IF loggedInCSID[c] = gameState[c].player2CSID THEN "Black"
    ELSE Null

Open == {c \in Clients : loggedInCSID[c] # Null}

NoModal == [exchangeCoins |-> FALSE, exchangeAmountSM |-> 0, exchangeAmountCS |-> 0]

\* no handleConfirmExchange call in flight
NoExchange == [at |-> "idle", csRequired |-> 0, smCoins |-> 0]

\* wallets as handleLogin and the wallet listener create them
NewWallets == [u \in Uids |-> 0]

\* no call of isValidMove under study
NoProbe == [boardState |-> INITIAL_BOARD_STRING, fromIndex |-> 0, toIndex |-> 0,
            done |-> FALSE, result |-> FALSE]

\* the snapshot of a document that does not exist
NoDocument == [exists |-> FALSE]

\* The clients are logged in and have received the first snapshot of their
\* wallet.
InitLocal(logins, wallets, doc) ==
    /\ game = doc
    /\ wallet = wallets
    /\ csCoinBalance = [c \in Clients |->
                           IF logins[c].uid = Null THEN 0 ELSE wallets[logins[c].uid]]
    /\ modals = [c \in Clients |-> NoModal]
    /\ exchange = [c \in Clients |-> NoExchange]
    /\ exchange_requests = << >>
    /\ gameState = [c \in Clients |-> doc]
    /\ selectedSquareIndex = [c \in Clients |-> NoSelection]
    /\ pend = [c \in Clients |-> NoOp]
    /\ loggedInCSID = [c \in Clients |-> logins[c].csid]
    /\ authUser = [c \in Clients |-> logins[c].uid]
    /\ resetScheduled = [c \in Clients |-> 0]
    /\ settled = [u \in Uids |-> 0]
    /\ nMoves = 0
    /\ nSeatOps = 0
    /\ initPending = {}

\* The game document exists and every client has received its first
\* snapshot.
InitClients(logins, wallets, doc) ==
    /\ InitLocal(logins, wallets, doc)
    /\ docExists = TRUE
    /\ inbox = [c \in Clients |-> << >>]

InitWith(logins, wallets, doc) ==
    InitClients(logins, wallets, doc) /\ probe = NoProbe

Init == InitWith(LoginsTwo, NewWallets, InitialGameState)

InitTabs == InitWith(LoginsTabs, NewWallets, InitialGameState)

InitThree == InitWith(LoginsThree, NewWallets, InitialGameState)

\* A committed write reaches every listener as a snapshot of the whole
\* document; a write that leaves the document as it was raises no event.
CanCommit == \A c \in Open : Len(inbox[c]) < MaxLag

Commit(newDoc) ==
    /\ game' = newDoc
    /\ inbox' = IF newDoc = game THEN inbox
                ELSE [c \in Clients |->
                        IF c \in Open THEN Append(inbox[c], newDoc) ELSE inbox[c]]

\* setDoc: writes the document, creating it when it does not exist.
SetDoc(newDoc) ==
    /\ docExists' = TRUE
    /\ IF docExists THEN Commit(newDoc)
       ELSE /\ game' = newDoc
            /\ inbox' = [c \in Clients |->
                            IF c \in Open THEN Append(inbox[c], newDoc) ELSE inbox[c]]

\* A transaction on the game document throws when transaction.get finds
\* no document.
TxnGet(txn) == IF docExists THEN txn ELSE [ok |-> FALSE, doc |-> game]

\* -------------------------------------------------------------------- join
\* mutant of JoinTxn: no check that the player is seated already
JoinTxnNoSeatedCheck(current, csid) ==
    IF current.player1CSID = ""
    THEN [ok |-> TRUE,
          doc |-> [current EXCEPT !.player1CSID = csid, !.winnerCSID = Null]]
    ELSE IF current.player2CSID = ""
    THEN [ok |-> TRUE,
          doc |-> [current EXCEPT !.player2CSID = csid, !.gameStatus = "Playing",
                                  !.winnerCSID = Null]]
    ELSE [ok |-> FALSE, doc |-> current]

\* mutant of JoinTxn: taking the White seat starts the game as well
JoinTxnWhiteStarts(current, csid) ==
    IF current.player1CSID = csid \/ current.player2CSID = csid
    THEN [ok |-> FALSE, doc |-> current]
    ELSE IF current.player1CSID = ""
    THEN [ok |-> TRUE,
          doc |-> [current EXCEPT !.player1CSID = csid, !.gameStatus = "Playing",
                                  !.winnerCSID = Null]]
    ELSE IF current.player2CSID = ""
    THEN [ok |-> TRUE,
          doc |-> [current EXCEPT !.player2CSID = csid, !.gameStatus = "Playing",
                                  !.winnerCSID = Null]]
    ELSE [ok |-> FALSE, doc |-> current]

\* mutant of JoinTxn: a blind write of the White seat
JoinTxnTakesWhite(current, csid) ==
    IF current.player1CSID = csid \/ current.player2CSID = csid
    THEN [ok |-> FALSE, doc |-> current]
    ELSE [ok |-> TRUE,
          doc |-> [current EXCEPT !.player1CSID = csid, !.winnerCSID = Null]]

\* The function handed to runTransaction by handleJoinGame.
JoinTxn(current, csid) ==
    IF current.player1CSID = csid \/ current.player2CSID = csid
    THEN [ok |-> FALSE, doc |-> current]
    ELSE IF current.player1CSID = ""
    THEN [ok |-> TRUE,
          doc |-> [current EXCEPT !.player1CSID = csid, !.winnerCSID = Null]]
    ELSE IF current.player2CSID = ""
    THEN [ok |-> TRUE,
          doc |-> [current EXCEPT !.player2CSID = csid, !.gameStatus = "Playing",
                                  !.winnerCSID = Null]]
    ELSE [ok |-> FALSE, doc |-> current]

\* The Join button: the checks made on the client's own copy.
handleJoinGame(c) ==
    /\ c \in Open
    /\ pend[c] = NoOp
    /\ ~isPlayer(c)
    /\ gameState[c].gameStatus # "Playing"
    /\ pend' = [pend EXCEPT ![c] = Pending("join")]
    /\ UNCHANGED << docExists, initPending, probe, exchVars, game, wallet, inbox, gameState, selectedSquareIndex, loggedInCSID,
                    authUser, resetScheduled, settled, nMoves, nSeatOps >>

\* The transaction handleJoinGame started.
handleJoinGameTxn(c) ==
    /\ pend[c].op = "join"
    /\ TxnGet(JoinTxn(game, loggedInCSID[c])).ok => (CanCommit /\ nSeatOps < MaxSeatOps)
    /\ Commit(TxnGet(JoinTxn(game, loggedInCSID[c])).doc)
    /\ nSeatOps' = IF TxnGet(JoinTxn(game, loggedInCSID[c])).ok THEN nSeatOps + 1 ELSE nSeatOps
    /\ pend' = [pend EXCEPT ![c] = NoOp]
    /\ UNCHANGED << docExists, initPending, probe, exchVars, wallet, gameState, selectedSquareIndex, loggedInCSID,
                    authUser, resetScheduled, settled, nMoves >>

\* ------------------------------------------------------------------- leave
\* mutant of LeaveTxn: the player who stays is awarded the game
LeaveTxnForfeits(current, csid) ==
    IF csid = current.player1CSID /\ current.player2CSID # ""
    THEN [ok |-> TRUE,
          doc |-> [current EXCEPT !.player1CSID = "", !.gameStatus = "Finished",
                                  !.winnerCSID = current.player2CSID]]
    ELSE IF csid = current.player2CSID /\ current.player1CSID # ""
    THEN [ok |-> TRUE,
          doc |-> [current EXCEPT !.player2CSID = "", !.gameStatus = "Finished",
                                  !.winnerCSID = current.player1CSID]]
    ELSE IF csid = current.player1CSID \/ csid = current.player2CSID
    THEN [ok |-> TRUE, doc |-> [InitialGameState EXCEPT !.winnerCSID = current.winnerCSID]]
    ELSE [ok |-> FALSE, doc |-> current]

\* The function handed to runTransaction by handleLeaveGame.
LeaveTxn(current, csid) ==
    LET p1 == IF csid = current.player1CSID THEN "" ELSE current.player1CSID
        p2 == IF csid = current.player1CSID THEN current.player2CSID
              ELSE IF csid = current.player2CSID THEN "" ELSE current.player2CSID
    IN  IF csid # current.player1CSID /\ csid # current.player2CSID
        THEN [ok |-> FALSE, doc |-> current]
        ELSE IF p1 = "" /\ p2 = ""
        THEN [ok |-> TRUE,
              doc |-> [current EXCEPT !.player1CSID = p1, !.player2CSID = p2,
                                      !.gameStatus = "Waiting",
                                      !.boardState = INITIAL_BOARD_STRING,
                                      !.turn = "White"]]
        ELSE [ok |-> TRUE,
              doc |-> [current EXCEPT !.player1CSID = p1, !.player2CSID = p2,
                                      !.gameStatus =
                                          IF @ = "Playing" THEN "Waiting" ELSE @]]

\* The Leave button.
handleLeaveGame(c) ==
    /\ c \in Open
    /\ pend[c] = NoOp
    /\ isPlayer(c)
    /\ pend' = [pend EXCEPT ![c] = Pending("leave")]
    /\ UNCHANGED << docExists, initPending, probe, exchVars, game, wallet, inbox, gameState, selectedSquareIndex, loggedInCSID,
                    authUser, resetScheduled, settled, nMoves, nSeatOps >>

\* The transaction handleLeaveGame started.
handleLeaveGameTxn(c) ==
    /\ pend[c].op = "leave"
    /\ TxnGet(LeaveTxn(game, loggedInCSID[c])).ok => (CanCommit /\ nSeatOps < MaxSeatOps)
    /\ Commit(TxnGet(LeaveTxn(game, loggedInCSID[c])).doc)
    /\ nSeatOps' = IF TxnGet(LeaveTxn(game, loggedInCSID[c])).ok THEN nSeatOps + 1 ELSE nSeatOps
    /\ pend' = [pend EXCEPT ![c] = NoOp]
    /\ UNCHANGED << docExists, initPending, probe, exchVars, wallet, gameState, selectedSquareIndex, loggedInCSID,
                    authUser, resetScheduled, settled, nMoves >>

\* ------------------------------------------------------------------- reset
\* mutant of ResetDoc: a merging write that leaves the seats alone
ResetKeepsSeats ==
    [InitialGameState EXCEPT !.player1CSID = game.player1CSID,
                             !.player2CSID = game.player2CSID]

\* the document handleResetGame writes with setDoc
ResetDoc == InitialGameState

\* Runs from the Reset button, or from the timer handleGameFinished set.
handleResetGame(c) ==
    /\ c \in Open
    /\ CanCommit
    /\ nSeatOps < MaxSeatOps
    /\ SetDoc(ResetDoc)
    /\ nSeatOps' = nSeatOps + 1
    /\ \E viaTimer \in BOOLEAN :
          /\ viaTimer => resetScheduled[c] > 0
          /\ resetScheduled' =
                IF viaTimer THEN [resetScheduled EXCEPT ![c] = @ - 1]
                ELSE resetScheduled
    /\ UNCHANGED << initPending, probe, exchVars, wallet, gameState, selectedSquareIndex, pend,
                    loggedInCSID, authUser, settled, nMoves >>

\* -------------------------------------------------------------------- move
Opposite(color) == IF color = "White" THEN "Black" ELSE "White"

\* mutant of MovePiece: the source cell keeps its piece
MovePieceKeepsSource(boardState, fromIndex, toIndex) ==
    [boardState EXCEPT ![toIndex + 1] = At(boardState, fromIndex)]

\* board[toIndex] = pieceToMove; board[fromIndex] = '.'
MovePiece(boardState, fromIndex, toIndex) ==
    [boardState EXCEPT ![toIndex + 1] = At(boardState, fromIndex),
                       ![fromIndex + 1] = "."]

\* mutant of isKingCapture: the comparison without toUpperCase()
isKingCaptureCaseSensitive(targetPiece) == targetPiece = "K"

\* targetPiece.toUpperCase() === 'K'
isKingCapture(targetPiece) == toUpperCase(targetPiece) = "K"

\* mutant of MoveAllowed: the turn is not compared
MoveAllowedAnyTurn(current, fromIndex, color) ==
    getPieceColor(current.boardState, fromIndex) = color

\* "Final move color check": the piece on fromIndex and the turn, both
\* against the colour the click handler computed from its own gameState.
MoveAllowed(current, fromIndex, color) ==
    ~(getPieceColor(current.boardState, fromIndex) # color \/ current.turn # color)

\* mutant of MoveTxn: the turn is written before the check that throws
MoveTxnWritesThenThrows(current, fromIndex, toIndex, color, csid) ==
    IF ~MoveAllowed(current, fromIndex, color)
    THEN [ok |-> FALSE, doc |-> [current EXCEPT !.turn = Opposite(color)]]
    ELSE [ok |-> TRUE,
          doc |-> [current EXCEPT
                      !.boardState = MovePiece(current.boardState, fromIndex, toIndex),
                      !.turn = Opposite(color),
                      !.gameStatus = IF isKingCapture(At(current.boardState, toIndex))
                                     THEN "Finished" ELSE "Playing",
                      !.winnerCSID = IF isKingCapture(At(current.boardState, toIndex))
                                     THEN csid ELSE Null]]

\* The function handed to runTransaction by handleSquareClick.  fromIndex,
\* toIndex, color (myColor) and csid (loggedInCSID) are the values the click
\* handler held when it started the transaction.
MoveTxn(current, fromIndex, toIndex, color, csid) ==
    LET targetPiece == At(current.boardState, toIndex)
    IN  IF ~MoveAllowed(current, fromIndex, color)
        THEN [ok |-> FALSE, doc |-> current]
        ELSE [ok |-> TRUE,
              doc |-> [current EXCEPT
                          !.boardState = MovePiece(current.boardState, fromIndex, toIndex),
                          !.turn = Opposite(color),
                          !.gameStatus = IF isKingCapture(targetPiece)
                                         THEN "Finished" ELSE "Playing",
                          !.winnerCSID = IF isKingCapture(targetPiece)
                                         THEN csid ELSE Null]]

\* A click on a square: everything up to the start of the transaction.
handleSquareClick(c, clickedIndex) ==
    /\ c \in Open
    /\ pend[c] = NoOp
    /\ gameState[c].gameStatus = "Playing"
    /\ isPlayer(c)
    /\ myColor(c) = gameState[c].turn
    /\ IF selectedSquareIndex[c] = NoSelection
       THEN /\ getPieceColor(gameState[c].boardState, clickedIndex) = myColor(c)
            /\ selectedSquareIndex' = [selectedSquareIndex EXCEPT ![c] = clickedIndex]
            /\ pend' = pend
       ELSE IF selectedSquareIndex[c] = clickedIndex
       THEN /\ selectedSquareIndex' = [selectedSquareIndex EXCEPT ![c] = NoSelection]
            /\ pend' = pend
       ELSE IF ~isValidMove(gameState[c].boardState, selectedSquareIndex[c], clickedIndex)
       THEN /\ selectedSquareIndex' = [selectedSquareIndex EXCEPT ![c] = NoSelection]
            /\ pend' = pend
       ELSE /\ pend' = [pend EXCEPT ![c] = [op        |-> "move",
                                            fromIndex |-> selectedSquareIndex[c],
                                            toIndex   |-> clickedIndex,
                                            myColor   |-> myColor(c)]]
            /\ selectedSquareIndex' = selectedSquareIndex
    /\ UNCHANGED << docExists, initPending, probe, exchVars, game, wallet, inbox, gameState, loggedInCSID, authUser,
                    resetScheduled, settled, nMoves, nSeatOps >>

PendTxn(c) ==
    TxnGet(MoveTxn(game, pend[c].fromIndex, pend[c].toIndex, pend[c].myColor,
                   loggedInCSID[c]))

\* The transaction of the move in flight, and the handler's finally block.
handleSquareClickTxn(c) ==
    /\ pend[c].op = "move"
    /\ PendTxn(c).ok => (CanCommit /\ nMoves < MaxMoves)
    /\ Commit(PendTxn(c).doc)
    /\ nMoves' = IF PendTxn(c).ok THEN nMoves + 1 ELSE nMoves
    /\ settled' = IF PendTxn(c).ok /\ PendTxn(c).doc.gameStatus = "Finished"
                  THEN [u \in Uids |-> 0] ELSE settled
    /\ pend' = [pend EXCEPT ![c] = NoOp]
    /\ selectedSquareIndex' = [selectedSquareIndex EXCEPT ![c] = NoSelection]
    /\ UNCHANGED << docExists, initPending, probe, exchVars, wallet, gameState, loggedInCSID, authUser, resetScheduled, nSeatOps >>

\* ---------------------------------------------------------------- listener
winAmount == 100
lossAmount == 100

Max(a, b) == IF a > b THEN a ELSE b

\* mutant of ListenerClosure: the listener sees the current render's values
CurrentClosure(c) ==
    [ authUser |-> authUser[c], loggedInCSID |-> loggedInCSID[c],
      gameState |-> gameState[c] ]

\* What the snapshot listener's handleGameFinished sees of the component.
\* The listener is registered once, by an effect with an empty dependency
\* list, so the handleGameFinished it calls is the one of the first render:
\* its authUser and loggedInCSID are the useState initial values (null) and
\* its gameState is the initial game state.
ListenerClosure(c) ==
    [ authUser |-> Null, loggedInCSID |-> Null, gameState |-> InitialGameState ]

\* The wallet transaction of handleGameFinished: ok is FALSE when the
\* transaction function throws (authUser.uid of a null authUser).
SettleTxn(w, winnerCSID, player1CSID, player2CSID, clos) ==
    LET Step(bal, csid) ==
            IF csid # "" /\ clos.loggedInCSID = csid
            THEN [bal EXCEPT ![clos.authUser] =
                      IF csid = winnerCSID THEN @ + winAmount
                      ELSE Max(0, @ - lossAmount)]
            ELSE bal
    IN  IF clos.authUser = Null
        THEN [ok |-> FALSE, wallet |-> w]
        ELSE [ok |-> TRUE, wallet |-> Step(Step(w, player1CSID), player2CSID)]

\* handleGameFinished as the listener calls it: the new wallets, and whether
\* it got as far as scheduling the reset.
GameFinished(c, w, winnerCSID, player1CSID, player2CSID) ==
    LET clos == ListenerClosure(c)
        txn == SettleTxn(w, winnerCSID, player1CSID, player2CSID, clos)
    IN  IF clos.gameState.gameStatus = "Finished"
           /\ clos.gameState.winnerCSID = winnerCSID
        THEN [wallet |-> w, scheduled |-> FALSE]
        ELSE [wallet |-> txn.wallet, scheduled |-> txn.ok]

\* The onSnapshot callback for the game document, when it exists.
Deliver(c) ==
    /\ inbox[c] # << >>
    /\ Head(inbox[c]) # NoDocument
    /\ LET data == Head(inbox[c])
           prev == gameState[c]
           fin == /\ data.gameStatus = "Finished"
                  /\ data.winnerCSID \notin {Null, ""}
                  /\ prev.gameStatus # "Finished"
           done == GameFinished(c, wallet, data.winnerCSID,
                                data.player1CSID, data.player2CSID)
       IN  /\ gameState' = [gameState EXCEPT ![c] = data]
           /\ wallet' = IF fin THEN done.wallet ELSE wallet
           /\ settled' = IF fin
                         THEN [u \in Uids |->
                                  IF done.wallet[u] # wallet[u]
                                  THEN settled[u] + 1 ELSE settled[u]]
                         ELSE settled
           /\ resetScheduled' = IF fin /\ done.scheduled
                                THEN [resetScheduled EXCEPT ![c] = @ + 1]
                                ELSE resetScheduled
    /\ inbox' = [inbox EXCEPT ![c] = Tail(@)]
    /\ UNCHANGED << docExists, initPending, probe, exchVars, game, selectedSquareIndex, pend,
                    loggedInCSID, authUser, nMoves, nSeatOps >>

\* The onSnapshot callback when the document does not exist: it starts a
\* setDoc of the initial fields and leaves the React state alone.
DeliverMissing(c) ==
    /\ inbox[c] # << >>
    /\ Head(inbox[c]) = NoDocument
    /\ initPending' = initPending \cup {c}
    /\ inbox' = [inbox EXCEPT ![c] = Tail(@)]
    /\ UNCHANGED << docExists, probe, exchVars, game, wallet, gameState, selectedSquareIndex,
                    pend, loggedInCSID, authUser, resetScheduled, settled, nMoves, nSeatOps >>

\* setDoc(ref, fields, {merge: true}): the fields given replace those of
\* the document, its other fields stay.
Merge(current, fields) ==
    [f \in DOMAIN current \cup DOMAIN fields |->
        IF f \in DOMAIN fields THEN fields[f] ELSE current[f]]

\* The setDoc the listener started for a missing document reaches the
\* store.
InitializeGameState(c) ==
    /\ c \in initPending
    /\ CanCommit
    /\ SetDoc(IF docExists THEN Merge(game, InitialGameState) ELSE InitialGameState)
    /\ initPending' = initPending \ {c}
    /\ UNCHANGED << probe, exchVars, wallet, gameState, selectedSquareIndex, pend,
                    loggedInCSID, authUser, resetScheduled, settled, nMoves, nSeatOps >>

\* ---------------------------------------------------------------- exchange
CS_COINS_PER_STARMAKER_COIN == 400

\* the exchange buttons pressed (of 42, 84, 429 and 871 Starmaker coins)
ExchangeChoices == {42}

gameVars == << game, inbox, gameState, selectedSquareIndex, pend, loggedInCSID, authUser,
               resetScheduled, settled, nMoves, nSeatOps, docExists, initPending >>

\* The onSnapshot callback for the client's wallet document.
WalletSnapshot(c) ==
    /\ c \in Open
    /\ csCoinBalance[c] # wallet[authUser[c]]
    /\ csCoinBalance' = [csCoinBalance EXCEPT ![c] = wallet[authUser[c]]]
    /\ UNCHANGED << probe, gameVars, wallet, modals, exchange, exchange_requests >>

\* An exchange button: opens the dialog when the displayed balance covers it.
handleExchangeClick(c, smCoins) ==
    LET csRequired == smCoins * CS_COINS_PER_STARMAKER_COIN
    IN  /\ c \in Open
        /\ csCoinBalance[c] >= csRequired
        /\ modals' = [modals EXCEPT ![c] = [exchangeCoins |-> TRUE,
                                            exchangeAmountSM |-> smCoins,
                                            exchangeAmountCS |-> csRequired]]
        /\ UNCHANGED << probe, gameVars, wallet, csCoinBalance, exchange, exchange_requests >>

\* The Confirm button of the dialog, up to the start of the wallet
\* transaction: the amount is the dialog's, checked against the displayed
\* balance.
handleConfirmExchange(c) ==
    /\ c \in Open
    /\ modals[c].exchangeCoins
    /\ exchange[c].at = "idle"
    /\ csCoinBalance[c] >= modals[c].exchangeAmountCS
    /\ exchange' = [exchange EXCEPT ![c] = [at |-> "txn",
                                           csRequired |-> modals[c].exchangeAmountCS,
                                           smCoins |-> modals[c].exchangeAmountSM]]
    /\ UNCHANGED << probe, gameVars, wallet, csCoinBalance, modals, exchange_requests >>

\* mutant of ExchangeTxn: no balance check inside the transaction
ExchangeTxnNoRecheck(currentBalance, csRequired) ==
    [ok |-> TRUE, csCoinBalance |-> currentBalance - csRequired]

\* mutant of ExchangeTxn: a successful exchange takes the whole balance
ExchangeTxnEmptiesWallet(currentBalance, csRequired) ==
    IF currentBalance < csRequired
    THEN [ok |-> FALSE, csCoinBalance |-> currentBalance]
    ELSE [ok |-> TRUE, csCoinBalance |-> 0]

\* The wallet transaction of handleConfirmExchange on the committed balance:
\* ok is FALSE when it throws.
ExchangeTxn(currentBalance, csRequired) ==
    IF currentBalance < csRequired
    THEN [ok |-> FALSE, csCoinBalance |-> currentBalance]
    ELSE [ok |-> TRUE, csCoinBalance |-> currentBalance - csRequired]

\* The wallet transaction commits or throws; a throw ends the call with the
\* dialog still open.
handleConfirmExchangeTxn(c) ==
    /\ exchange[c].at = "txn"
    /\ LET uid == authUser[c]
           txn == ExchangeTxn(wallet[uid], exchange[c].csRequired)
       IN  /\ wallet' = [wallet EXCEPT ![uid] = txn.csCoinBalance]
           /\ exchange' = [exchange EXCEPT ![c] =
                              IF txn.ok THEN [@ EXCEPT !.at = "log"] ELSE NoExchange]
    /\ UNCHANGED << probe, gameVars, csCoinBalance, modals, exchange_requests >>

\* After the deduction: the exchange request is written and the dialog
\* closes, or the write fails and the call ends with the dialog open.
handleConfirmExchangeLog(c) ==
    /\ exchange[c].at = "log"
    /\ \E written \in BOOLEAN :
          /\ exchange_requests' =
                IF written
                THEN Append(exchange_requests,
                            [csid |-> loggedInCSID[c],
                             smCoins |-> exchange[c].smCoins,
                             csCoinsDeducted |-> exchange[c].csRequired])
                ELSE exchange_requests
          /\ modals' = IF written
                       THEN [modals EXCEPT ![c].exchangeCoins = FALSE]
                       ELSE modals
    /\ exchange' = [exchange EXCEPT ![c] = NoExchange]
    /\ UNCHANGED << probe, gameVars, wallet, csCoinBalance >>

\* ----------------------------------------------------------- specification
Next ==
    \/ \E c \in Clients : handleJoinGame(c)
    \/ \E c \in Clients : handleJoinGameTxn(c)
    \/ \E c \in Clients : handleLeaveGame(c)
    \/ \E c \in Clients : handleLeaveGameTxn(c)
    \/ \E c \in Clients : handleResetGame(c)
    \/ \E c \in Clients : \E i \in ClickCells : handleSquareClick(c, i)
    \/ \E c \in Clients : handleSquareClickTxn(c)
    \/ \E c \in Clients : Deliver(c)

\* two players, one tab each, pressing any button
Spec == Init /\ [][Next]_vars

\* Seats only: nobody clicks on the board.
NextSeats ==
    \/ \E c \in Clients : handleJoinGame(c)
    \/ \E c \in Clients : handleJoinGameTxn(c)
    \/ \E c \in Clients : handleLeaveGame(c)
    \/ \E c \in Clients : handleLeaveGameTxn(c)
    \/ \E c \in Clients : handleResetGame(c)
    \/ \E c \in Clients : Deliver(c)

\* three players, or one player in two tabs and an opponent, taking and
\* giving up seats
SpecSeats == (InitTabs \/ InitThree) /\ [][NextSeats]_vars

\* squares clicked on when one player has two tabs: a second white piece, the
\* bishop on f1, can move (to a6)
TabsCells == {4, 8, 16, 31, 59, 61}

\* One game played through: nobody presses Leave or Reset.
NextTabs ==
    \/ \E c \in Clients : handleJoinGame(c)
    \/ \E c \in Clients : handleJoinGameTxn(c)
    \/ \E c \in Clients : \E i \in TabsCells : handleSquareClick(c, i)
    \/ \E c \in Clients : handleSquareClickTxn(c)
    \/ \E c \in Clients : Deliver(c)

\* one player in two tabs, and an opponent
SpecTabs == InitTabs /\ [][NextTabs]_vars

\* wallet documents holding coins credited from outside this component: one
\* exchange's worth and a remainder for the player with two tabs, less than
\* a stake for the opponent
LedgerWallets ==
    [u \in Uids |-> IF u = "u1" THEN 42 * CS_COINS_PER_STARMAKER_COIN + 150
                    ELSE IF u = "u2" THEN 50 ELSE 0]

\* a game left in progress by an earlier session: both seats taken, no move
\* made yet
SeatedGame ==
    [InitialGameState EXCEPT !.player1CSID = "A", !.player2CSID = "B",
                             !.gameStatus = "Playing"]

\* the same game two moves on (d1-h5, a7-a6): White to move, the queen one
\* move from the black king
QueenOutGame ==
    [SeatedGame EXCEPT !.boardState =
        MovePiece(MovePiece(INITIAL_BOARD_STRING, 59, 31), 8, 16)]

InitLedger == InitWith(LoginsTabs, LedgerWallets, QueenOutGame)

\* A game played to its end while the players exchange coins.
NextLedger ==
    \/ \E c \in Clients : \E i \in ClickCells : handleSquareClick(c, i)
    \/ \E c \in Clients : handleSquareClickTxn(c)
    \/ \E c \in Clients : Deliver(c)
    \/ \E c \in Clients : WalletSnapshot(c)
    \/ \E c \in Clients : \E smCoins \in ExchangeChoices : handleExchangeClick(c, smCoins)
    \/ \E c \in Clients : handleConfirmExchange(c)
    \/ \E c \in Clients : handleConfirmExchangeTxn(c)
    \/ \E c \in Clients : handleConfirmExchangeLog(c)

\* one player in two tabs with coins to exchange, and an opponent
SpecLedger == InitLedger /\ [][NextLedger]_vars

InitEverything == InitWith(LoginsTwo, LedgerWallets, InitialGameState)

\* Every button of the page: seats, board and exchange.
NextEverything ==
    \/ \E c \in Clients : handleJoinGame(c)
    \/ \E c \in Clients : handleJoinGameTxn(c)
    \/ \E c \in Clients : handleLeaveGame(c)
    \/ \E c \in Clients : handleLeaveGameTxn(c)
    \/ \E c \in Clients : \E i \in ClickCells : handleSquareClick(c, i)
    \/ \E c \in Clients : handleSquareClickTxn(c)
    \/ \E c \in Clients : Deliver(c)
    \/ \E c \in Clients : WalletSnapshot(c)
    \/ \E c \in Clients : \E smCoins \in ExchangeChoices : handleExchangeClick(c, smCoins)
    \/ \E c \in Clients : handleConfirmExchange(c)
    \/ \E c \in Clients : handleConfirmExchangeTxn(c)
    \/ \E c \in Clients : handleConfirmExchangeLog(c)

\* two players, one tab each, one of them with coins to exchange
SpecEverything == InitEverything /\ [][NextEverything]_vars

\* boards isValidMove is called on: the initial one, and one with pawns off
\* their starting rank and pieces standing in the way of pawns
BlockedBoard ==
    [INITIAL_BOARD_STRING EXCEPT
        ![1 + 1] = ".",  ![40 + 1] = "n",
        ![9 + 1] = ".",  ![33 + 1] = "p",
        ![50 + 1] = ".", ![42 + 1] = "P",
        ![58 + 1] = ".", ![35 + 1] = "B",
        ![62 + 1] = ".", ![23 + 1] = "N",
        ![14 + 1] = ".", ![22 + 1] = "p"]

ProbeBoards == {INITIAL_BOARD_STRING, BlockedBoard}

Cells == 0 .. 63

\* isValidMove is about to be called on any of the boards with any two cells
InitValidMove ==
    /\ InitClients(LoginsTwo, NewWallets, InitialGameState)
    /\ probe \in [boardState : ProbeBoards, fromIndex : Cells, toIndex : Cells,
                  done : {FALSE}, result : {FALSE}]

\* the call of isValidMove
ApplyIsValidMove ==
    /\ ~probe.done
    /\ probe' = [probe EXCEPT !.done = TRUE,
                              !.result = isValidMove(probe.boardState, probe.fromIndex,
                                                     probe.toIndex)]
    /\ UNCHANGED << gameVars, exchVars, wallet >>

SpecValidMove == InitValidMove /\ [][ApplyIsValidMove]_vars

\* three players and a game left in progress by two of them
InitSeated == InitWith(LoginsThree, NewWallets, SeatedGame)

\* three players taking and giving up seats, from the created game or from
\* one in progress
SpecJoins == (InitThree \/ InitSeated) /\ [][NextSeats]_vars

\* squares clicked on when a move outlives the board it was chosen on: the
\* white queen's d1-h5, the black pawn's a7-a6 and the white king's e1-d1
StaleCells == {8, 16, 31, 59, 60}

\* A game with the Reset button.
NextStale ==
    \/ \E c \in Clients : handleJoinGame(c)
    \/ \E c \in Clients : handleJoinGameTxn(c)
    \/ \E c \in Clients : handleResetGame(c)
    \/ \E c \in Clients : \E i \in StaleCells : handleSquareClick(c, i)
    \/ \E c \in Clients : handleSquareClickTxn(c)
    \/ \E c \in Clients : Deliver(c)

\* two players, one tab each
SpecStale == Init /\ [][NextStale]_vars

\* two players and the game they left in progress
InitPlaying == InitWith(LoginsTwo, NewWallets, SeatedGame)

\* two players, one tab each, pressing any button, from a game in progress
SpecLeaves == InitPlaying /\ [][Next]_vars

\* The first run: the game document does not exist yet, and the first
\* snapshot on its way to every client says so.
InitFirstRun ==
    /\ InitLocal(LoginsTwo, NewWallets, InitialGameState)
    /\ docExists = FALSE
    /\ inbox = [c \in Clients |->
                   IF LoginsTwo[c].csid # Null THEN << NoDocument >> ELSE << >>]
    /\ probe = NoProbe

\* squares clicked on in the first run
FirstRunCells == {31, 59}

NextFirstRun ==
    \/ \E c \in Clients : DeliverMissing(c)
    \/ \E c \in Clients : InitializeGameState(c)
    \/ \E c \in Clients : Deliver(c)
    \/ \E c \in Clients : handleJoinGame(c)
    \/ \E c \in Clients : handleJoinGameTxn(c)
    \/ \E c \in Clients : handleLeaveGame(c)
    \/ \E c \in Clients : handleLeaveGameTxn(c)
    \/ \E c \in Clients : handleResetGame(c)
    \/ \E c \in Clients, i \in FirstRunCells : handleSquareClick(c, i)
    \/ \E c \in Clients : handleSquareClickTxn(c)

\* two players open the game before its document exists
SpecFirstRun == InitFirstRun /\ [][NextFirstRun]_vars

\* Joins only: nobody leaves, resets or clicks on the board.
NextJoinsOnly ==
    \/ \E c \in Clients : handleJoinGame(c)
    \/ \E c \in Clients : handleJoinGameTxn(c)
    \/ \E c \in Clients : Deliver(c)

\* three players press Join on the created game
SpecJoinsOnly == InitThree /\ [][NextJoinsOnly]_vars

\* squares clicked on when either king can be taken: both queens' lines
KingCells == {3, 4, 31, 39, 59, 60}

NextKings ==
    \/ \E c \in Clients : handleJoinGame(c)
    \/ \E c \in Clients : handleJoinGameTxn(c)
    \/ \E c \in Clients : \E i \in KingCells : handleSquareClick(c, i)
    \/ \E c \in Clients : handleSquareClickTxn(c)
    \/ \E c \in Clients : Deliver(c)

\* two players, one tab each, playing one game through
SpecKings == Init /\ [][NextKings]_vars

\* handleResetGame run by the timer handleGameFinished set.
ResetTimerFires(c) ==
    handleResetGame(c) /\ resetScheduled'[c] = resetScheduled[c] - 1

\* The clients keep running: a snapshot committed is delivered, a
\* transaction started runs, a timer set fires.  Nobody has to press a
\* button.
Fairness ==
    \A c \in Clients :
        /\ WF_vars(Deliver(c))
        /\ WF_vars(handleJoinGameTxn(c))
        /\ WF_vars(handleSquareClickTxn(c))
        /\ WF_vars(ResetTimerFires(c))

\* One game played through, with the Reset button and the reset timer.
NextFair ==
    \/ \E c \in Clients : handleJoinGame(c)
    \/ \E c \in Clients : handleJoinGameTxn(c)
    \/ \E c \in Clients : handleResetGame(c)
    \/ \E c \in Clients : \E i \in ClickCells : handleSquareClick(c, i)
    \/ \E c \in Clients : handleSquareClickTxn(c)
    \/ \E c \in Clients : Deliver(c)

\* two players, one tab each, with clients that keep running
SpecFair == Init /\ [][NextFair]_vars /\ Fairness

\* ---------------------------------------------------- what a step committed
\* The step commits the move client c has in flight.
MoveCommitted(c) ==
    pend[c].op = "move" /\ pend'[c] = NoOp /\ nMoves' = nMoves + 1

\* The step commits the join client c has in flight.
JoinCommitted(c) ==
    pend[c].op = "join" /\ pend'[c] = NoOp /\ nSeatOps' = nSeatOps + 1

\* The step ends the transaction of the leave client c has in flight.
LeaveEnded(c) == pend[c].op = "leave" /\ pend'[c] = NoOp

\* The step commits the leave client c has in flight.
LeaveCommitted(c) == LeaveEnded(c) /\ nSeatOps' = nSeatOps + 1

\* The step is a committed handleResetGame.
ResetCommitted == nSeatOps' = nSeatOps + 1 /\ pend' = pend

\* The colour of the seat csid holds in a game document.
SeatColor(doc, csid) ==
    IF csid = doc.player1CSID THEN "White"
    ELSE IF csid = doc.player2CSID THEN "Black"
    ELSE Null

BothSeated(doc) == doc.player1CSID # "" /\ doc.player2CSID # ""

\* The uid whose wallet belongs to the player csid.
UidOf(csid) ==
    CHOOSE u \in Uids : \E c \in Clients : loggedInCSID[c] = csid /\ authUser[c] = u

\* Every connected client's listener has handled the Finished document.
FinishedObserved ==
    /\ game.gameStatus = "Finished"
    /\ game.winnerCSID \notin {Null, ""}
    /\ \A c \in Open : inbox[c] = << >> /\ gameState[c] = game

\* The step is client c's listener handling a Finished transition: it calls
\* handleGameFinished.
HandlesFinished(c) ==
    /\ inbox[c] # << >>
    /\ Head(inbox[c]).gameStatus = "Finished"
    /\ Head(inbox[c]).winnerCSID \notin {Null, ""}
    /\ gameState[c].gameStatus # "Finished"
    /\ inbox'[c] = Tail(inbox[c])
    /\ gameState'[c] = Head(inbox[c])

\* The step ends the join, leave or move client c has in flight with a throw.
TxnFailed(c) ==
    /\ pend[c].op \in {"join", "leave", "move"}
    /\ pend'[c] = NoOp
    /\ nSeatOps' = nSeatOps
    /\ nMoves' = nMoves

\* The step ends the wallet transaction of client c's exchange with a throw.
ExchangeFailed(c) == exchange[c].at = "txn" /\ exchange'[c] = NoExchange

\* The step commits the deduction of client c's exchange.
ExchangeCommitted(c) == exchange[c].at = "txn" /\ exchange'[c].at = "log"

\* ----------------------------------------------------------------- claims

\* C1: a move commits only if, in the document the transaction read,
\* turn is the colour of the seat the mover holds in that document; a
\* player with no seat there commits no move.
C1_MoveOnlyBySeatedOnTurn ==
    [][\A c \in Clients :
          MoveCommitted(c) =>
              /\ SeatColor(game, loggedInCSID[c]) # Null
              /\ game.turn = SeatColor(game, loggedInCSID[c])]_vars

\* C2: after a committed move the turn is the opposite of the turn the
\* transaction read, the source cell is empty and the target cell holds the
\* piece that stood on the source cell.
C2_MoveEffect ==
    [][\A c \in Clients :
          MoveCommitted(c) =>
              /\ game'.turn = Opposite(game.turn)
              /\ At(game'.boardState, pend[c].fromIndex) = "."
              /\ At(game'.boardState, pend[c].toIndex)
                     = At(game.boardState, pend[c].fromIndex)]_vars

C2_Witness ==
    /\ nMoves = 1
    /\ game.turn = "Black"
    /\ At(game.boardState, 59) = "."
    /\ At(game.boardState, 31) = "Q"

\* C3: a committed move onto a cell that holds a King of either side ends
\* the game with the mover as winner; a committed move onto any other cell
\* leaves winner null and the status other than Finished.
C3_KingCapture ==
    [][\A c \in Clients :
          MoveCommitted(c) =>
              IF At(game.boardState, pend[c].toIndex) \in {"K", "k"}
              THEN game'.gameStatus = "Finished" /\ game'.winnerCSID = loggedInCSID[c]
              ELSE game'.gameStatus # "Finished" /\ game'.winnerCSID = Null]_vars

\* the black player has taken the white king
C3_Witness ==
    /\ game.gameStatus = "Finished"
    /\ game.winnerCSID = game.player2CSID
    /\ game.winnerCSID # ""
    /\ At(game.boardState, 60) = "q"

\* C4: the two seats never hold the same player, and no join commits on a
\* document that is Playing with both seats filled.
C4_JoinSeats ==
    /\ [](game.player1CSID # "" => game.player1CSID # game.player2CSID)
    /\ [][\A c \in Clients :
             JoinCommitted(c) => ~(game.gameStatus = "Playing" /\ BothSeated(game))]_vars

\* a player who holds no seat has a join in flight against a full game in play
C4_Witness ==
    /\ game.gameStatus = "Playing"
    /\ BothSeated(game)
    /\ \E c \in Clients :
          /\ pend[c].op = "join"
          /\ SeatColor(game, loggedInCSID[c]) = Null

\* C5: when two clients have a move of the same turn in flight and one of
\* them commits, the other's transaction fails on the new document and
\* writes nothing.
C5_OneMovePerTurn ==
    [][\A c, d \in Clients :
          (/\ c # d
           /\ MoveCommitted(c)
           /\ pend[d].op = "move"
           /\ pend[d].myColor = game.turn)
          => /\ ~PendTxn(d)'.ok
             /\ PendTxn(d)'.doc = game']_vars

\* one tab's move is committed while the other tab's move of the same turn,
\* with another piece, is still in flight
C5_Witness ==
    /\ nMoves = 1
    /\ game.turn = "Black"
    /\ At(game.boardState, 31) = "Q"
    /\ \E d \in Clients :
          /\ pend[d].op = "move"
          /\ pend[d].myColor = "White"
          /\ pend[d].fromIndex = 61

\* C6: for one Finished transition every wallet is changed by at most one
\* settlement, however many clients see the transition.
C6_SettledOnce == \A u \in Uids : settled[u] <= 1

\* both tabs of one player have seen the game finish
C6_Witness ==
    \E c, d \in Clients :
        /\ c # d
        /\ authUser[c] = authUser[d]
        /\ loggedInCSID[c] = game.winnerCSID
        /\ game.gameStatus = "Finished"
        /\ gameState[c] = game
        /\ gameState[d] = game

\* C7: every player's committed ledger balance is at least 0 in every
\* reachable state, whatever settlements and exchanges (two racing on one
\* balance included) have committed.
C7_BalanceNonNegative == \A u \in Uids : wallet[u] >= 0

\* one tab's exchange has been deducted and logged while the other tab's
\* exchange for the same wallet, accepted on the old displayed balance, is
\* still to run its transaction; the game has finished and been observed
C7_Witness ==
    /\ game.gameStatus = "Finished"
    /\ \E c \in Open : gameState[c].gameStatus = "Finished"
    /\ Len(exchange_requests) = 1
    /\ \E c \in Open : /\ exchange[c].at = "txn"
                       /\ exchange[c].csRequired > wallet[authUser[c]]

\* C8: a Playing game has both seats occupied.
C8_PlayingSeated == game.gameStatus = "Playing" => BothSeated(game)

\* C9: a Finished game has a winner, and the winner held a seat in the
\* document read by the winning move.
C9_FinishedWinner ==
    /\ [](game.gameStatus = "Finished" => game.winnerCSID # Null)
    /\ [][\A c \in Clients :
             (MoveCommitted(c) /\ game'.gameStatus = "Finished")
             => SeatColor(game, loggedInCSID[c]) # Null]_vars

\* C10: a Waiting game has the initial board and White to move.
C10_WaitingInitial ==
    game.gameStatus = "Waiting"
    => game.boardState = INITIAL_BOARD_STRING /\ game.turn = "White"


\* C11: a join, leave, move or exchange whose transaction throws leaves the
\* game document, every wallet and the exchange requests as they were.
C11_FailureWritesNothing ==
    [][\A c \in Clients :
          (TxnFailed(c) \/ ExchangeFailed(c)) =>
              /\ game' = game
              /\ wallet' = wallet
              /\ exchange_requests' = exchange_requests]_vars

\* a move that will throw (its piece has gone from the source cell or the
\* turn has passed) and an exchange that will throw (the committed balance
\* no longer covers it) are both in flight
C11_Witness ==
    /\ \E c \in Clients : pend[c].op = "move" /\ ~PendTxn(c).ok
    /\ \E c \in Open : /\ exchange[c].at = "txn"
                       /\ wallet[authUser[c]] < exchange[c].csRequired


\* C12: the cost of an exchange is its Starmaker coins times 400; when the
\* committed balance the transaction reads is below the cost the exchange
\* throws and the balance stays, otherwise the committed balance goes down
\* by exactly the cost.
C12_ExchangeCost ==
    [][\A c \in Clients :
          (ExchangeFailed(c) \/ ExchangeCommitted(c)) =>
              LET uid == authUser[c]
                  cost == exchange[c].csRequired
              IN  /\ cost = exchange[c].smCoins * CS_COINS_PER_STARMAKER_COIN
                  /\ IF wallet[uid] < cost
                     THEN ExchangeFailed(c) /\ wallet' = wallet
                     ELSE /\ ExchangeCommitted(c)
                          /\ wallet' = [wallet EXCEPT ![uid] = @ - cost]]_vars

\* a deduction of exactly one exchange's cost has just been committed from a
\* balance that was larger than the cost
C12_Witness ==
    \E c \in Open :
       /\ exchange[c].at = "log"
       /\ exchange[c].smCoins = 42
       /\ wallet[authUser[c]] = LedgerWallets[authUser[c]] - exchange[c].csRequired
       /\ wallet[authUser[c]] > 0


\* C13: the deduction of an exchange and its exchange request are committed
\* together: a step commits the deduction exactly when it adds the request.
C13_RecordWithDeduction ==
    [][(\E c \in Clients : ExchangeCommitted(c))
          <=> (exchange_requests' # exchange_requests)]_vars


\* C14: once the Finished game with both seats taken has been observed by
\* the players' clients, the winner's balance is its balance before plus 100
\* and the loser's is its balance before minus 100, not below 0 (the
\* balances before are those of new wallets).
C14_SettlementAmounts ==
    (FinishedObserved /\ BothSeated(game)) =>
        LET W == game.winnerCSID
            L == IF W = game.player1CSID THEN game.player2CSID ELSE game.player1CSID
        IN  /\ wallet[UidOf(W)] = NewWallets[UidOf(W)] + winAmount
            /\ wallet[UidOf(L)] = Max(0, NewWallets[UidOf(L)] - lossAmount)


C16_FinishedThenReset ==
    (game.gameStatus = "Finished" /\ \E c \in Open : gameState[c] = game)
        ~> (game = InitialGameState)


\* C17: a reset, from whatever state, leaves the created document: Waiting,
\* initial board, both seats empty, White to move, no winner; a second
\* reset leaves the same document.
C17_ResetCreated ==
    [][ResetCommitted =>
          /\ game'.gameStatus = "Waiting"
          /\ game'.boardState = INITIAL_BOARD_STRING
          /\ game'.player1CSID = "" /\ game'.player2CSID = ""
          /\ game'.turn = "White"
          /\ game'.winnerCSID = Null]_vars

\* a game with both seats taken and a move made has been reset
C17_Witness ==
    /\ game = InitialGameState
    /\ nMoves >= 1
    /\ nSeatOps >= 3
    /\ \E c \in Open : gameState[c].player1CSID # "" /\ gameState[c].player2CSID # ""


\* C18: whenever the source cell holds a piece and the target cell holds a
\* piece of the same side, isValidMove returns false, whatever the piece;
\* so it does when source and target are the same cell.
C18_NoOwnCapture ==
    LET b == probe.boardState
    IN  (/\ probe.done
         /\ At(b, probe.fromIndex) # "."
         /\ At(b, probe.toIndex) # "."
         /\ getPieceColor(b, probe.fromIndex) = getPieceColor(b, probe.toIndex))
        => probe.result = FALSE

\* isValidMove has been called for a queen and a cell on her line that
\* holds a pawn of her side
C18_Witness ==
    /\ probe.done
    /\ At(probe.boardState, probe.fromIndex) = "Q"
    /\ At(probe.boardState, probe.toIndex) = "P"
    /\ probe.fromIndex = 59 /\ probe.toIndex = 51
    /\ probe.result = FALSE

\* C19: a pawn's advance of two cells in its column is accepted exactly
\* when the pawn stands on its side's starting rank (row 6 for White, row 1
\* for Black) and the cell passed over and the target cell are both empty.
C19_PawnDoubleAdvance ==
    LET b == probe.boardState
        from == probe.fromIndex
        to == probe.toIndex
        white == At(b, from) = "P"
        step == IF white THEN 0 - 8 ELSE 8
    IN  (/\ probe.done
         /\ At(b, from) \in {"P", "p"}
         /\ to = from + 2 * step)
        => (probe.result <=>
               /\ from \div 8 = (IF white THEN 6 ELSE 1)
               /\ At(b, from + step) = "."
               /\ At(b, to) = ".")

\* isValidMove has refused the two steps of a pawn on its starting rank
\* whose target cell is empty and whose way is barred
C19_Witness ==
    /\ probe.done
    /\ probe.boardState = BlockedBoard
    /\ probe.fromIndex = 48 /\ probe.toIndex = 32
    /\ At(probe.boardState, 40) = "n"
    /\ probe.result = FALSE


\* C20: a committed join seats the player as White when that seat is empty
\* in the document read, otherwise as Black; it makes the game Playing
\* exactly when it fills the Black seat, and leaves board and turn alone.
\* So from the created game the first join gives White and Waiting, the
\* second Black, Playing and White to move.
C20_JoinSeatsAndStatus ==
    [][\A c \in Clients :
          JoinCommitted(c) =>
              /\ game'.boardState = game.boardState /\ game'.turn = game.turn
              /\ IF game.player1CSID = ""
                 THEN /\ game'.player1CSID = loggedInCSID[c]
                      /\ game'.player2CSID = game.player2CSID
                      /\ game'.gameStatus = game.gameStatus
                 ELSE /\ game.player2CSID = ""
                      /\ game'.player2CSID = loggedInCSID[c]
                      /\ game'.player1CSID = game.player1CSID
                      /\ game'.gameStatus = "Playing"
              /\ game = InitialGameState => game'.gameStatus = "Waiting"]_vars

\* the White seat was given up and taken again while Black stayed: both
\* seats are taken and the game is Waiting
C20_Witness ==
    /\ BothSeated(game)
    /\ game.gameStatus = "Waiting"
    /\ game.turn = "White"


\* C21: every committed move is a valid move on the board the transaction
\* read, whatever board the client chose it on.
C21_CommittedMoveValid ==
    [][\A c \in Clients :
          MoveCommitted(c) =>
              isValidMove(game.boardState, pend[c].fromIndex, pend[c].toIndex)]_vars


\* C22: a move commits only on a document whose status is Playing.
C22_MoveOnlyWhenPlaying ==
    [][\A c \in Clients : MoveCommitted(c) => game.gameStatus = "Playing"]_vars


\* C23: a leave by a player who holds no seat in the document read throws
\* and writes nothing; otherwise it empties that player's seat and no
\* other; with both seats then empty the board is the initial one, White
\* is to move and the game is Waiting; else a Playing game becomes Waiting
\* and board and turn stay; the winner is never written.
C23_LeaveEffect ==
    [][\A c \in Clients :
          LeaveEnded(c) =>
              LET csid == loggedInCSID[c]
              IN  IF csid # game.player1CSID /\ csid # game.player2CSID
                  THEN game' = game /\ ~LeaveCommitted(c)
                  ELSE /\ LeaveCommitted(c)
                       /\ game'.winnerCSID = game.winnerCSID
                       /\ IF csid = game.player1CSID
                          THEN game'.player1CSID = "" /\ game'.player2CSID = game.player2CSID
                          ELSE game'.player2CSID = "" /\ game'.player1CSID = game.player1CSID
                       /\ IF game'.player1CSID = "" /\ game'.player2CSID = ""
                          THEN /\ game'.boardState = INITIAL_BOARD_STRING
                               /\ game'.turn = "White"
                               /\ game'.gameStatus = "Waiting"
                          ELSE /\ game'.boardState = game.boardState
                               /\ game'.turn = game.turn
                               /\ game'.gameStatus =
                                     (IF game.gameStatus = "Playing" THEN "Waiting"
                                      ELSE game.gameStatus)]_vars

\* both players have left a game that was won: the seats are empty, the
\* board is the initial one, the game is Waiting and the winner still stands
C23_Witness ==
    /\ game.player1CSID = "" /\ game.player2CSID = ""
    /\ game.boardState = INITIAL_BOARD_STRING
    /\ game.turn = "White"
    /\ game.gameStatus = "Waiting"
    /\ game.winnerCSID # Null


\* The step is the arrival of the setDoc client c started for a missing
\* document.
InitializeCommitted(c) == c \in initPending /\ c \notin initPending'

\* C26: the initialisation started by a client that saw no document
\* leaves a document that exists by then as it is.
C26_InitNeverOverwrites ==
    [][\A c \in Clients : (InitializeCommitted(c) /\ docExists) => game' = game]_vars


\* C24: once the document is Finished, a step that changes its status is a
\* reset: no join, leave or move takes the game out of Finished.
C24_OnlyResetLeavesFinished ==
    [][(game.gameStatus = "Finished" /\ game'.gameStatus # "Finished")
          => ResetCommitted]_vars


\* C25: for a Bishop, a Rook or a Queen isValidMove returns true exactly
\* when the move has the piece's shape (diagonal, straight, either) and the
\* target cell holds no piece of the mover's side; the cells between the
\* two play no part.
C25_SlidersIgnorePath ==
    LET b == probe.boardState
        from == probe.fromIndex
        to == probe.toIndex
        dRow == (to \div 8) - (from \div 8)
        dCol == (to % 8) - (from % 8)
        diagonal == Abs(dRow) = Abs(dCol)
        straight == dRow = 0 \/ dCol = 0
        shape == CASE At(b, from) \in {"B", "b"} -> diagonal
                   [] At(b, from) \in {"R", "r"} -> straight
                   [] OTHER -> diagonal \/ straight
    IN  (probe.done /\ At(b, from) \in {"B", "b", "R", "r", "Q", "q"})
        => (probe.result <=>
               (shape /\ getPieceColor(b, to) # getPieceColor(b, from)))

\* isValidMove has accepted the Rook's capture from a1 to a8 over the two
\* pawns of the initial board
C25_Witness ==
    /\ probe.done
    /\ probe.boardState = INITIAL_BOARD_STRING
    /\ probe.fromIndex = 56 /\ probe.toIndex = 0
    /\ At(probe.boardState, 48) = "P" /\ At(probe.boardState, 8) = "p"
    /\ probe.result = TRUE


\* C27: with three players joining at once, a committed join fills a seat
\* that was empty in the document, leaves the other seat as it was and
\* seats the joiner; a join on a full document commits nothing; so no more
\* than two joins commit on the created game.
C27_JoinAtomic ==
    /\ [](nSeatOps <= 2)
    /\ [][\A c \in Clients :
             /\ JoinCommitted(c) =>
                   /\ \/ /\ game.player1CSID = ""
                         /\ game'.player1CSID = loggedInCSID[c]
                         /\ game'.player2CSID = game.player2CSID
                      \/ /\ game.player2CSID = ""
                         /\ game'.player2CSID = loggedInCSID[c]
                         /\ game'.player1CSID = game.player1CSID
                   /\ loggedInCSID[c] \notin {game.player1CSID, game.player2CSID}
             /\ (pend[c].op = "join" /\ pend'[c] = NoOp /\ BothSeated(game))
                   => game' = game]_vars

\* both seats are taken and the third player's join is still on its way
C27_Witness ==
    /\ BothSeated(game)
    /\ game.player1CSID # game.player2CSID
    /\ nSeatOps = 2
    /\ \E c \in Clients :
          /\ pend[c].op = "join"
          /\ loggedInCSID[c] \notin {game.player1CSID, game.player2CSID}


\* C28: the document never has both seats taken while it is Waiting.
C28_FullNeverWaiting == BothSeated(game) => game.gameStatus # "Waiting"


\* C29: the document names a winner only while it is Finished.
C29_WinnerOnlyFinished == game.winnerCSID # Null => game.gameStatus = "Finished"


=============================================================================
